---- MODULE Spec2Model ----
(***************************************************************************)
(* translation-agent.js: src/src/index.js.                                 *)
(*                                                                         *)
(* translate() counts the tokens of the source text and either runs the    *)
(* single-chunk pipeline (initial translation, reflection, improvement) or *)
(* plans a chunk size, splits the text and runs the multi-chunk pass.      *)
(*                                                                         *)
(* A JavaScript string is modelled as a sequence of pieces (TLA+ strings): *)
(* a token of the source text, an answer of the model and a literal part   *)
(* of a prompt template are one piece each; `a + b`, template              *)
(* interpolation and Array.join("") are sequence concatenation.            *)
(* A JavaScript number is modelled as an exact rational <<num, den>> in    *)
(* lowest terms (the code divides with `/`, which does not truncate).      *)
(*                                                                         *)
(* An async function runs without interruption up to its next await of the *)
(* model or of the splitter, so there is one action per such segment.      *)
(***************************************************************************)
EXTENDS Integers, Sequences, FiniteSets, TLC

\* ---- bounds ----
MaxLen == 3          \* longest source text, in tokens
MaxBudget == 1       \* largest max_tokens tried besides the default
MaxTokens == 12      \* largest token_count given to calculate_chunk_size directly
MaxLimit == 6        \* largest token_limit given to calculate_chunk_size directly

\* the translate() calls running at the same time
Calls == {"A", "B"}

\* ---- strings ----
Str(s) == <<s>>
EmptyStr == <<>>

RECURSIVE Join(_)
\* Array.prototype.join("") of an array of strings
Join(arr) == IF arr = <<>> THEN <<>> ELSE Head(arr) \o Join(Tail(arr))

\* Array.prototype.slice(from, to), indices from 0, for 0 <= from
Slice(arr, from, to) == SubSeq(arr, from + 1, to)

\* String.prototype.includes
Includes(s, sub) ==
    \E k \in 0..(Len(s) - Len(sub)) : SubSeq(s, k + 1, k + Len(sub)) = sub

\* ---- numbers ----
RECURSIVE GCD(_, _)
GCD(a, b) == IF b = 0 THEN a ELSE GCD(b, a % b)

Norm(n, d) == LET g == GCD(n, d) IN <<n \div g, d \div g>>
Num(i) == <<i, 1>>
\* x / y for positive y
RDiv(x, y) == Norm(x[1] * y[2], x[2] * y[1])
\* x + y
RAdd(x, y) ==
    LET g == GCD(x[2], y[2])
    IN  Norm(x[1] * (y[2] \div g) + y[1] * (x[2] \div g), (x[2] \div g) * y[2])
\* x * y
RMul(x, y) ==
    LET g == GCD(x[1], y[2])
        h == GCD(y[1], x[2])
    IN  Norm((x[1] \div g) * (y[1] \div h), (x[2] \div h) * (y[2] \div g))
RLeq(x, y) == x[1] * y[2] <= y[1] * x[2]

\* ---- calculate_chunk_size ----
\* line 56 without the "+ token_limit - 1" that rounds the quotient up
num_chunks_not_rounded_up(token_count, token_limit) ==
    RDiv(Num(token_count), Num(token_limit))

\* line 56: (token_count + token_limit - 1) / token_limit, a division of numbers
num_chunks(token_count, token_limit) ==
    RDiv(Num(token_count + token_limit - 1), Num(token_limit))

\* line 58
remaining_tokens(token_count, token_limit) == token_count % token_limit

\* calculate_chunk_size without its early return of lines 53-55
calculate_chunk_size_always_divides(token_count, token_limit) ==
    LET base == RDiv(Num(token_count), num_chunks(token_count, token_limit))
        rem == remaining_tokens(token_count, token_limit)
    IN  IF rem > 0
        THEN RAdd(base, RDiv(Num(rem), num_chunks(token_count, token_limit)))
        ELSE base

calculate_chunk_size(token_count, token_limit) ==
    IF token_count <= token_limit
    THEN Num(token_count)
    ELSE LET chunk_size == RDiv(Num(token_count), num_chunks(token_count, token_limit))
             rem == remaining_tokens(token_count, token_limit)
         IN  IF rem > 0
             THEN RAdd(chunk_size, RDiv(Num(rem), num_chunks(token_count, token_limit)))
             ELSE chunk_size

\* ---- prompts ----
\* The literal parts of the templates are abbreviated; every interpolation is kept.
Message(system, user) == [system |-> system, user |-> user]

\* lines 109-114
one_chunk_initial_prompt(source_lang, target_lang, source_text) ==
    Message(
        Str("You are an expert linguist, specializing in translation from ")
            \o source_lang \o Str(" to ") \o target_lang \o Str("."),
        Str("This is an ") \o source_lang \o Str(" to ") \o target_lang
            \o Str(" translation, please provide the ") \o target_lang
            \o Str(" translation for this text. Do not provide any explanations. ")
            \o source_lang \o Str(": ") \o source_text \o Str(" ") \o target_lang \o Str(":"))

\* lines 159 and 318
LocaleClause(target_lang, country) ==
    Str("The final style and tone of the translation should match the style of ")
        \o target_lang \o Str(" colloquially spoken in ") \o country \o Str(".")

\* the part of the reflection prompt common to lines 138-156 and 161-179
ReflectBody(target_lang, source_text, translation_1) ==
    Str("The source text and initial translation are as follows: <SOURCE_TEXT>")
        \o source_text \o Str("</SOURCE_TEXT> <TRANSLATION>") \o translation_1
        \o Str("</TRANSLATION> When writing suggestions, pay attention to (i) accuracy (ii) fluency (by applying ")
        \o target_lang
        \o Str(" grammar) (iii) style (iv) terminology (equivalent idioms ")
        \o target_lang \o Str("). Output only the suggestions and nothing else.")

\* one_chunk_reflect_on_translation with the test of line 157 dropped: the
\* locale variant of the prompt whatever the country
one_chunk_reflect_prompt_always_locale(source_lang, target_lang, source_text, translation_1, country) ==
    Message(
        Str("You are an expert linguist specializing in translation from ")
            \o source_lang \o Str(" to ") \o target_lang
            \o Str(". Your goal is to improve the translation."),
        Str("Your task is to carefully read a source text and a translation from ")
            \o source_lang \o Str(" to ") \o target_lang
            \o Str(", and then give constructive criticism and helpful suggestions to improve the translation. ")
            \o LocaleClause(target_lang, country)
            \o ReflectBody(target_lang, source_text, translation_1))

\* lines 134-180
one_chunk_reflect_prompt(source_lang, target_lang, source_text, translation_1, country) ==
    Message(
        Str("You are an expert linguist specializing in translation from ")
            \o source_lang \o Str(" to ") \o target_lang
            \o Str(". Your goal is to improve the translation."),
        IF country # EmptyStr
        THEN Str("Your task is to carefully read a source text and a translation from ")
                \o source_lang \o Str(" to ") \o target_lang
                \o Str(", and then give constructive criticism and helpful suggestions to improve the translation. ")
                \o LocaleClause(target_lang, country)
                \o ReflectBody(target_lang, source_text, translation_1)
        ELSE Str("Your task is to carefully read a source text and a translation from ")
                \o source_lang \o Str(" to ") \o target_lang
                \o Str(", and then give constructive criticisms and helpful suggestions to improve the translation. ")
                \o ReflectBody(target_lang, source_text, translation_1))

\* one_chunk_improve_translation called with the reflection and the initial
\* translation in each other's place
one_chunk_improve_prompt_swapped(source_lang, target_lang, source_text, translation_1, reflection) ==
    Message(
        Str("You are an expert linguist, specializing in translation editing from ")
            \o source_lang \o Str(" to ") \o target_lang \o Str("."),
        Str("Your task is to carefully read, then edit, a translation from ")
            \o source_lang \o Str(" to ") \o target_lang
            \o Str(", taking into account a list of expert suggestions. <SOURCE_TEXT>")
            \o source_text \o Str("</SOURCE_TEXT> <TRANSLATION>") \o reflection
            \o Str("</TRANSLATION> <EXPERT_SUGGESTIONS>") \o translation_1
            \o Str("</EXPERT_SUGGESTIONS> Edit the translation by ensuring (i) accuracy (ii) fluency (by applying ")
            \o target_lang
            \o Str(" grammar) (iii) style (iv) terminology (v) other errors. Output only the new translation and nothing else."))

\* lines 200-227
one_chunk_improve_prompt(source_lang, target_lang, source_text, translation_1, reflection) ==
    Message(
        Str("You are an expert linguist, specializing in translation editing from ")
            \o source_lang \o Str(" to ") \o target_lang \o Str("."),
        Str("Your task is to carefully read, then edit, a translation from ")
            \o source_lang \o Str(" to ") \o target_lang
            \o Str(", taking into account a list of expert suggestions. <SOURCE_TEXT>")
            \o source_text \o Str("</SOURCE_TEXT> <TRANSLATION>") \o translation_1
            \o Str("</TRANSLATION> <EXPERT_SUGGESTIONS>") \o reflection
            \o Str("</EXPERT_SUGGESTIONS> Edit the translation by ensuring (i) accuracy (ii) fluency (by applying ")
            \o target_lang
            \o Str(" grammar) (iii) style (iv) terminology (v) other errors. Output only the new translation and nothing else."))

\* tagged_text with slice(i) for slice(i + 1): chunk i is repeated after the mark
tagged_text_repeats_chunk(source_text_chunks, i) ==
    Join(Slice(source_text_chunks, 0, i))
        \o Str("<TRANSLATE_THIS>")
        \o source_text_chunks[i + 1]
        \o Str("</TRANSLATE_THIS>")
        \o Join(Slice(source_text_chunks, i, Len(source_text_chunks)))

\* lines 241-245, 280-284, 363-367: chunk i (from 0) marked inside the whole text
tagged_text(source_text_chunks, i) ==
    Join(Slice(source_text_chunks, 0, i))
        \o Str("<TRANSLATE_THIS>")
        \o source_text_chunks[i + 1]
        \o Str("</TRANSLATE_THIS>")
        \o Join(Slice(source_text_chunks, i + 1, Len(source_text_chunks)))

\* lines 238, 246-262
multi_chunk_initial_prompt(source_lang, target_lang, source_text_chunks, i) ==
    Message(
        Str("You are an expert linguist, specializing in translation from ")
            \o source_lang \o Str(" to ") \o target_lang \o Str("."),
        Str("Your task is to provide a professional translation from ")
            \o source_lang \o Str(" to ") \o target_lang
            \o Str(" of PART of a text. <SOURCE_TEXT>")
            \o tagged_text(source_text_chunks, i)
            \o Str("</SOURCE_TEXT> To reiterate, translate only this part: <TRANSLATE_THIS>")
            \o source_text_chunks[i + 1]
            \o Str("</TRANSLATE_THIS> Output only the translation of the portion you are asked to translate."))

\* lines 275-276, 285-347; "{target_lang}" in (ii) is literal text there
multi_chunk_reflect_prompt(source_lang, target_lang, source_text_chunks, translation_1_trunks, country, i) ==
    Message(
        Str("You are an expert linguist specializing in translation from ")
            \o source_lang \o Str(" to ") \o target_lang
            \o Str(". Your goal is to improve the translation."),
        Str("Your task is to carefully read a source text and part of a translation of that text from ")
            \o source_lang \o Str(" to ") \o target_lang
            \o Str(", and then give constructive criticism and helpful suggestions for improving the translation. ")
            \o (IF country # EmptyStr THEN LocaleClause(target_lang, country) ELSE EmptyStr)
            \o Str("<SOURCE_TEXT>") \o tagged_text(source_text_chunks, i)
            \o Str("</SOURCE_TEXT> <TRANSLATE_THIS>") \o source_text_chunks[i + 1]
            \o Str("</TRANSLATE_THIS> <TRANSLATION>") \o translation_1_trunks[i + 1]
            \o Str("</TRANSLATION> (ii) fluency (by applying {target_lang} grammar) (iv) terminology (equivalent idioms ")
            \o target_lang \o Str("). Output only the suggestions and nothing else."))

\* lines 359, 368-406
multi_chunk_improve_prompt(source_lang, target_lang, source_text_chunks, translation_1_trunks, reflection_chunks, i) ==
    Message(
        Str("You are an expert linguist, specializing in translation editing from ")
            \o source_lang \o Str(" to ") \o target_lang \o Str("."),
        Str("Your task is to carefully read, then improve, a translation from ")
            \o source_lang \o Str(" to ") \o target_lang
            \o Str(", taking into account a set of expert suggestions. <SOURCE_TEXT>")
            \o tagged_text(source_text_chunks, i)
            \o Str("</SOURCE_TEXT> <TRANSLATE_THIS>") \o source_text_chunks[i + 1]
            \o Str("</TRANSLATE_THIS> <TRANSLATION>") \o translation_1_trunks[i + 1]
            \o Str("</TRANSLATION> <EXPERT_SUGGESTIONS>") \o reflection_chunks[i + 1]
            \o Str("</EXPERT_SUGGESTIONS> Output only the new translation of the indicated part and nothing else."))

\* ---- the environment: inputs, tokenizer, splitter, model ----
source_lang == Str("English")
target_lang == Str("French")
Countries == {EmptyStr, Str("Canada")}

\* line 7
MAX_TOKEN_PER_CHUNK == 1000

\* "Hello world." is three tokens of cl100k_base; longer texts go on with tokens
\* that are all different
Token(k) == IF k <= 3 THEN <<"Hello", " world", ".">>[k] ELSE ToString(k)

\* a source text of n tokens
Text(n) == [k \in 1..n |-> Token(k)]

Inputs ==
    [source_text : {Text(n) : n \in 0..MaxLen},
     country : Countries,
     max_tokens : (1..MaxBudget) \cup {MAX_TOKEN_PER_CHUNK}]

\* line 48: enc.encode(input_str).length; one piece of a source text is one token
num_tokens_in_string(input_str) == Len(input_str)

RECURSIVE Splits(_)
\* line 34: what TokenTextSplitter.splitText (chunkOverlap 0) may return: the text
\* cut into consecutive non-empty chunks, wherever the cuts fall
Splits(text) ==
    IF text = <<>>
    THEN {<<>>}
    ELSE UNION {{<<SubSeq(text, 1, k)>> \o rest :
                    rest \in Splits(SubSeq(text, k + 1, Len(text)))} :
                k \in 1..Len(text)}

\* what model.invoke followed by StringOutputParser may give
Answers == {Str("Bonjour le monde."), Str("no issues")}
\* what model.invoke may throw
Errors == {Str("network error")}

Pending == [st |-> "pending", v |-> EmptyStr]
Ok(a) == [st |-> "ok", v |-> a]
Err(e) == [st |-> "error", v |-> e]

\* ---- state ----
VARIABLES
    input,              \* the arguments of each translate() call
    pc,                 \* where each call is suspended
    log,                \* the model invocations of each call, in the order issued
    called,             \* the functions each call has entered
    outcome,            \* the promise translate() returned
    token_size,         \* line 28
    source_text_chunks, \* line 34
    translation_1,      \* line 79
    reflection,         \* line 80
    pass,               \* the multi-chunk pass that is running
    i,                  \* the loop index of lines 240, 279, 362
    arrays,             \* translation_chunks, reflection_chunks, translation_2_trunks
    plan                \* a direct call of calculate_chunk_size

vars == <<input, pc, log, called, outcome, token_size, source_text_chunks,
          translation_1, reflection, pass, i, arrays, plan>>

callVars == <<input, pc, log, called, outcome, token_size, source_text_chunks,
              translation_1, reflection, pass, i, arrays>>

NoArrays == [translation_chunks |-> <<>>, reflection_chunks |-> <<>>,
             translation_2_trunks |-> <<>>]

PlanUnused == [st |-> "unused", token_count |-> 0, token_limit |-> 0,
               num_chunks |-> Num(0), result |-> Num(0)]

InitCalls(first) ==
    /\ pc = [c \in Calls |-> first]
    /\ log = [c \in Calls |-> <<>>]
    /\ called = [c \in Calls |-> {}]
    /\ outcome = [c \in Calls |-> Pending]
    /\ token_size = [c \in Calls |-> Num(0)]
    /\ source_text_chunks = [c \in Calls |-> <<>>]
    /\ translation_1 = [c \in Calls |-> EmptyStr]
    /\ reflection = [c \in Calls |-> EmptyStr]
    /\ pass = [c \in Calls |-> "initial"]
    /\ i = [c \in Calls |-> 0]
    /\ arrays = [c \in Calls |-> NoArrays]

\* The calls run the same code, so of two assignments of inputs that differ
\* only in which call has which, one is started.
InputRank(in) ==
    (Len(in.source_text) * 2 + (IF in.country = EmptyStr THEN 0 ELSE 1))
        * (MAX_TOKEN_PER_CHUNK + 1) + in.max_tokens

Init ==
    /\ input \in [Calls -> Inputs]
    /\ InputRank(input["A"]) <= InputRank(input["B"])
    /\ InitCalls("translate")
    /\ plan = PlanUnused

\* ---- helpers of the actions ----
\* a binding local to one call, kept by every other call: one shared by all calls
StoreShared(f, c, v) == [d \in Calls |-> v]

\* const/let inside an async function: a binding local to the call
StoreLocal(f, c, v) == [f EXCEPT ![c] = v]

\* model.invoke: the invocation is outstanding until the model answers
Invoke(lg, fn, messages) ==
    Append(lg, [fn |-> fn, messages |-> messages, resp |-> Pending])

\* the outstanding invocation is answered
Answered(lg, r) == [lg EXCEPT ![Len(lg)].resp = r]

Awaiting(c) == log[c] # <<>> /\ log[c][Len(log[c])].resp = Pending

\* line 25 with the comparison turned around
single_chunk_path_flipped(num_tokens_in_text, max_tokens) ==
    num_tokens_in_text > max_tokens

\* line 25
single_chunk_path(num_tokens_in_text, max_tokens) ==
    num_tokens_in_text < max_tokens

\* Array.prototype.unshift instead of push
Unshift(arr, v) == <<v>> \o arr

\* lines 269, 353, 412
Push(arr, v) == Append(arr, v)

\* a loop that steps by two
NextIndexSkips(j) == j + 2

\* i++ of lines 240, 279, 362
NextIndex(j) == j + 1

\* multi_chunk_translation without the return of line 95
multi_chunk_translation_all_passes(p) ==
    CASE p = "initial" -> "reflect"
      [] p = "reflect" -> "improve"
      [] OTHER -> "return"

\* lines 94-97: what multi_chunk_translation does when a pass has ended; line 95
\* returns after the first pass, lines 96-97 are never reached
multi_chunk_translation_next(p) ==
    CASE p = "initial" -> "return"
      [] p = "reflect" -> "improve"
      [] OTHER -> "return"

\* an error caught and thrown again inside another
RejectedWrapped(e) == [st |-> "rejected", v |-> Str("TranslationServiceError: ") \o e]

\* no try/catch anywhere: the promise of translate() is rejected with what
\* model.invoke threw
Rejected(e) == [st |-> "rejected", v |-> e]

Resolved(s) == [st |-> "resolved", v |-> s]

PassFn(p) ==
    CASE p = "initial" -> "multi_chunk_initial_translation"
      [] p = "reflect" -> "multi_chunk_reflect_on_translation"
      [] OTHER -> "multi_chunk_improve_translation"

PassArray(arrs, p) ==
    CASE p = "initial" -> arrs.translation_chunks
      [] p = "reflect" -> arrs.reflection_chunks
      [] OTHER -> arrs.translation_2_trunks

PassPush(arrs, p, v) ==
    CASE p = "initial" -> [arrs EXCEPT !.translation_chunks = Push(@, v)]
      [] p = "reflect" -> [arrs EXCEPT !.reflection_chunks = Push(@, v)]
      [] OTHER -> [arrs EXCEPT !.translation_2_trunks = Push(@, v)]

PassPrompt(p, chunks, arrs, country, j) ==
    CASE p = "initial" ->
            multi_chunk_initial_prompt(source_lang, target_lang, chunks, j)
      [] p = "reflect" ->
            multi_chunk_reflect_prompt(source_lang, target_lang, chunks,
                                       arrs.translation_chunks, country, j)
      [] OTHER ->
            multi_chunk_improve_prompt(source_lang, target_lang, chunks,
                                       arrs.translation_chunks, arrs.reflection_chunks, j)

\* ---- translate() ----
\* lines 19-34, and lines 78-79 and 108-118 on the single-chunk path: from the
\* call to the first await
Translate(c) ==
    /\ pc[c] = "translate"
    /\ LET n == num_tokens_in_string(input[c].source_text)
       IN  IF single_chunk_path(n, input[c].max_tokens)
           THEN /\ pc' = [pc EXCEPT ![c] = "one_chunk_initial_translation"]
                /\ called' = [called EXCEPT ![c] =
                        @ \cup {"one_chunk_translate_text", "one_chunk_initial_translation"}]
                /\ log' = [log EXCEPT ![c] =
                        Invoke(@, "one_chunk_initial_translation",
                               one_chunk_initial_prompt(source_lang, target_lang,
                                                        input[c].source_text))]
                /\ UNCHANGED token_size
           ELSE /\ pc' = [pc EXCEPT ![c] = "splitText"]
                /\ called' = [called EXCEPT ![c] = @ \cup {"calculate_chunk_size", "splitText"}]
                /\ token_size' = StoreLocal(token_size, c,
                        calculate_chunk_size(n, input[c].max_tokens))
                /\ UNCHANGED log
    /\ UNCHANGED <<input, outcome, source_text_chunks, translation_1, reflection,
                   pass, i, arrays, plan>>

\* lines 34-36, 93-94, 236-266: the splitter has answered; multi_chunk_translation
\* starts its first pass, which invokes the model for chunk 0 (none: [] is joined)
SplitResolved(c) ==
    /\ pc[c] = "splitText"
    /\ \E chunks \in Splits(input[c].source_text) :
        /\ source_text_chunks' = StoreLocal(source_text_chunks, c, chunks)
        /\ called' = [called EXCEPT ![c] =
                @ \cup {"multi_chunk_translation", "multi_chunk_initial_translation"}]
        /\ pass' = StoreLocal(pass, c, "initial")
        /\ i' = StoreLocal(i, c, 0)
        /\ arrays' = StoreLocal(arrays, c, NoArrays)
        /\ IF 0 < Len(chunks)
           THEN /\ pc' = [pc EXCEPT ![c] = "multi_chunk"]
                /\ log' = [log EXCEPT ![c] =
                        Invoke(@, PassFn("initial"),
                               PassPrompt("initial", source_text_chunks'[c], arrays'[c],
                                          input[c].country, i'[c]))]
                /\ UNCHANGED outcome
           ELSE /\ pc' = [pc EXCEPT ![c] = "resolved"]
                /\ outcome' = [outcome EXCEPT ![c] = Resolved(Join(<<>>))]
                /\ UNCHANGED log
    /\ UNCHANGED <<input, token_size, translation_1, reflection, plan>>

\* lines 263-271 (and 348-355, 407-414), 94-97, 35-36: the model has answered for
\* chunk i; the answer is pushed, and the loop invokes the model for the next chunk
\* or ends the pass
ChunkAnswered(c) ==
    /\ pc[c] = "multi_chunk"
    /\ Awaiting(c)
    /\ \E a \in Answers :
        LET j == NextIndex(i[c])
            pushed == PassPush(arrays[c], pass[c], a)
            next == multi_chunk_translation_next(pass[c])
        IN  /\ arrays' = StoreLocal(arrays, c, pushed)
            /\ IF j < Len(source_text_chunks[c])
               THEN /\ i' = StoreLocal(i, c, j)
                    /\ log' = [log EXCEPT ![c] =
                            Invoke(Answered(@, Ok(a)), PassFn(pass[c]),
                                   PassPrompt(pass[c], source_text_chunks[c], arrays'[c],
                                              input[c].country, i'[c]))]
                    /\ UNCHANGED <<pc, pass, outcome, called>>
               ELSE IF next = "return"
               THEN /\ pc' = [pc EXCEPT ![c] = "resolved"]
                    /\ outcome' = [outcome EXCEPT ![c] =
                            Resolved(Join(PassArray(arrays'[c], pass[c])))]
                    /\ log' = [log EXCEPT ![c] = Answered(@, Ok(a))]
                    /\ UNCHANGED <<pass, i, called>>
               ELSE /\ pass' = StoreLocal(pass, c, next)
                    /\ i' = StoreLocal(i, c, 0)
                    /\ called' = [called EXCEPT ![c] = @ \cup {PassFn(next)}]
                    /\ log' = [log EXCEPT ![c] =
                            Invoke(Answered(@, Ok(a)), PassFn(next),
                                   PassPrompt(next, source_text_chunks[c], arrays'[c],
                                              input[c].country, i'[c]))]
                    /\ UNCHANGED <<pc, outcome>>
    /\ UNCHANGED <<input, token_size, source_text_chunks, translation_1, reflection, plan>>

\* lines 119-120, 79-80, 133-184: the model has answered the initial translation;
\* the reflection is invoked with it
InitialAnswered(c) ==
    /\ pc[c] = "one_chunk_initial_translation"
    /\ Awaiting(c)
    /\ \E a \in Answers :
        /\ translation_1' = StoreLocal(translation_1, c, a)
        /\ log' = [log EXCEPT ![c] =
                Invoke(Answered(@, Ok(a)), "one_chunk_reflect_on_translation",
                       one_chunk_reflect_prompt(source_lang, target_lang,
                            input[c].source_text, translation_1'[c], input[c].country))]
    /\ pc' = [pc EXCEPT ![c] = "one_chunk_reflect_on_translation"]
    /\ called' = [called EXCEPT ![c] = @ \cup {"one_chunk_reflect_on_translation"}]
    /\ UNCHANGED <<input, outcome, token_size, source_text_chunks, reflection,
                   pass, i, arrays, plan>>

\* lines 185-186, 80-81, 199-231: the model has answered the reflection; the
\* improvement is invoked with the initial translation and the reflection
ReflectionAnswered(c) ==
    /\ pc[c] = "one_chunk_reflect_on_translation"
    /\ Awaiting(c)
    /\ \E a \in Answers :
        /\ reflection' = StoreLocal(reflection, c, a)
        /\ log' = [log EXCEPT ![c] =
                Invoke(Answered(@, Ok(a)), "one_chunk_improve_translation",
                       one_chunk_improve_prompt(source_lang, target_lang,
                            input[c].source_text, translation_1[c], reflection'[c]))]
    /\ pc' = [pc EXCEPT ![c] = "one_chunk_improve_translation"]
    /\ called' = [called EXCEPT ![c] = @ \cup {"one_chunk_improve_translation"}]
    /\ UNCHANGED <<input, outcome, token_size, source_text_chunks, translation_1,
                   pass, i, arrays, plan>>

\* lines 232-233, 81, 26: the model has answered the improvement, which
\* one_chunk_translate_text and translate return
ImprovementAnswered(c) ==
    /\ pc[c] = "one_chunk_improve_translation"
    /\ Awaiting(c)
    /\ \E a \in Answers :
        /\ log' = [log EXCEPT ![c] = Answered(@, Ok(a))]
        /\ outcome' = [outcome EXCEPT ![c] = Resolved(a)]
    /\ pc' = [pc EXCEPT ![c] = "resolved"]
    /\ UNCHANGED <<input, called, token_size, source_text_chunks, translation_1,
                   reflection, pass, i, arrays, plan>>

\* lines 115, 181, 228, 263 (348, 407): model.invoke throws; nothing catches it
ModelThrows(c) ==
    /\ Awaiting(c)
    /\ \E e \in Errors :
        /\ log' = [log EXCEPT ![c] = Answered(@, Err(e))]
        /\ outcome' = [outcome EXCEPT ![c] = Rejected(e)]
    /\ pc' = [pc EXCEPT ![c] = "rejected"]
    /\ UNCHANGED <<input, called, token_size, source_text_chunks, translation_1,
                   reflection, pass, i, arrays, plan>>

Next ==
    \E c \in Calls :
        \/ Translate(c)
        \/ SplitResolved(c)
        \/ ChunkAnswered(c)
        \/ InitialAnswered(c)
        \/ ReflectionAnswered(c)
        \/ ImprovementAnswered(c)
        \/ ModelThrows(c)

Spec == Init /\ [][Next]_vars

\* ---- calculate_chunk_size called directly ----
\* the end-to-end scenario of 2500 tokens under a budget of 1000
ScenarioTokens == 2500
ScenarioLimit == MAX_TOKEN_PER_CHUNK

PlanInputs ==
    ((1..MaxTokens) \X (1..MaxLimit)) \cup {<<ScenarioTokens, ScenarioLimit>>}

PlanInit ==
    /\ \E in \in PlanInputs :
        plan = [st |-> "call", token_count |-> in[1], token_limit |-> in[2],
                num_chunks |-> Num(0), result |-> Num(0)]
    /\ input \in [Calls -> {[source_text |-> Text(0), country |-> EmptyStr, max_tokens |-> 1]}]
    /\ InitCalls("unused")

\* lines 51-63
PlanCall ==
    /\ plan.st = "call"
    /\ plan' = [plan EXCEPT
            !.st = "returned",
            !.num_chunks = IF plan.token_count <= plan.token_limit
                           THEN Num(0)
                           ELSE num_chunks(plan.token_count, plan.token_limit),
            !.result = calculate_chunk_size(plan.token_count, plan.token_limit)]
    /\ UNCHANGED callVars

PlanNext == PlanCall

PlanSpec == PlanInit /\ [][PlanNext]_vars

\* ---- what the claims speak of ----
SourceTokens(c) == num_tokens_in_string(input[c].source_text)
BelowBudget(c) == SourceTokens(c) < input[c].max_tokens
AnswerOf(c, k) == log[c][k].resp.v
AnswersOf(c) == [k \in 1..Len(log[c]) |-> AnswerOf(c, k)]
UserOf(c, k) == log[c][k].messages.user
OneChunkFns ==
    <<"one_chunk_initial_translation", "one_chunk_reflect_on_translation",
      "one_chunk_improve_translation">>
LocaleLiterals ==
    {Str("The final style and tone of the translation should match the style of "),
     Str(" colloquially spoken in ")}

\* C1: a call whose source text has fewer tokens than max_tokens takes the
\* single-chunk path: it never calls calculate_chunk_size, the splitter or
\* multi_chunk_translation, every model invocation it makes is one of the three
\* single-chunk stages, it never makes more than 3, and when it resolves it has
\* made exactly 3.
C1_SingleChunkPath ==
    \A c \in Calls :
        BelowBudget(c) =>
            /\ called[c] \cap {"calculate_chunk_size", "splitText", "multi_chunk_translation",
                               "multi_chunk_initial_translation"} = {}
            /\ pc[c] # "translate" => "one_chunk_translate_text" \in called[c]
            /\ Len(log[c]) <= 3
            /\ \A k \in DOMAIN log[c] : log[c][k].fn = OneChunkFns[k]
            /\ outcome[c].st = "resolved" => Len(log[c]) = 3

C1_Witness ==
    \E c \in Calls :
        /\ BelowBudget(c)
        /\ SourceTokens(c) > 0
        /\ outcome[c].st = "resolved"
        /\ Len(log[c]) = 3

\* C2: a call whose source text has at least max_tokens tokens (as many
\* included) calls the splitter and multi_chunk_translation; when it resolves,
\* there are as many chunk outputs as chunks, the k-th output is the model's
\* answer to the invocation made for chunk k, and the result is these outputs
\* joined in that order.
C2_MultiChunkJoin ==
    \A c \in Calls :
        ~BelowBudget(c) =>
            /\ pc[c] # "translate" => "splitText" \in called[c]
            /\ pc[c] \notin {"translate", "splitText"} =>
                    "multi_chunk_translation" \in called[c]
            /\ outcome[c].st = "resolved" =>
                /\ Len(arrays[c].translation_chunks) = Len(source_text_chunks[c])
                /\ \A k \in 1..Len(source_text_chunks[c]) :
                    /\ log[c][k].messages = multi_chunk_initial_prompt(
                            source_lang, target_lang, source_text_chunks[c], k - 1)
                    /\ arrays[c].translation_chunks[k] = AnswerOf(c, k)
                /\ Len(log[c]) = Len(source_text_chunks[c])
                /\ outcome[c].v = Join(AnswersOf(c))

C2_Witness ==
    \E c \in Calls :
        /\ SourceTokens(c) = input[c].max_tokens
        /\ outcome[c].st = "resolved"
        /\ \E d \in Calls :
            /\ ~BelowBudget(d)
            /\ outcome[d].st = "resolved"
            /\ Len(source_text_chunks[d]) >= 2
            /\ AnswerOf(d, 1) # AnswerOf(d, 2)

\* C3: when an invocation of the model fails, it is the last invocation the call
\* makes, translate() is rejected with exactly what the model threw, and no
\* string is returned; a call that resolves has had every invocation answered.
C3_AllOrNothing ==
    \A c \in Calls :
        /\ \A k \in DOMAIN log[c] :
            log[c][k].resp.st = "error" =>
                /\ k = Len(log[c])
                /\ pc[c] = "rejected"
                /\ outcome[c] = [st |-> "rejected", v |-> log[c][k].resp.v]
        /\ outcome[c].st = "resolved" =>
                \A k \in DOMAIN log[c] : log[c][k].resp.st = "ok"
        /\ outcome[c].st = "rejected" =>
                log[c] # <<>> /\ log[c][Len(log[c])].resp.st = "error"

C3_Witness ==
    /\ \E c \in Calls :
        /\ pc[c] = "rejected"
        /\ Len(log[c]) = 2
        /\ log[c][2].fn = "one_chunk_reflect_on_translation"
        /\ "one_chunk_improve_translation" \notin called[c]
    /\ \E c \in Calls :
        /\ pc[c] = "rejected"
        /\ Len(log[c]) = 2
        /\ log[c][2].fn = "multi_chunk_initial_translation"
        /\ Len(source_text_chunks[c]) = 3

\* ceil(token_count / token_limit), an integer
Ceil(token_count, token_limit) == (token_count + token_limit - 1) \div token_limit

C5_CountryClause ==
    \A c \in Calls : \A k \in DOMAIN log[c] :
        LET user == UserOf(c, k)
            country == input[c].country
        IN  /\ log[c][k].fn = "one_chunk_reflect_on_translation" =>
                /\ country # EmptyStr =>
                    /\ Includes(user, LocaleClause(target_lang, country))
                    /\ Includes(user, country)
                /\ country = EmptyStr =>
                    \A lit \in LocaleLiterals : ~Includes(user, lit)
            /\ log[c][k].fn \in {"one_chunk_initial_translation",
                                "one_chunk_improve_translation"} =>
                /\ \A lit \in LocaleLiterals :
                    ~Includes(user, lit) /\ ~Includes(log[c][k].messages.system, lit)
                /\ country # EmptyStr =>
                    ~Includes(user, country) /\ ~Includes(log[c][k].messages.system, country)
                /\ \A d \in Calls :
                    (/\ k \in DOMAIN log[d]
                     /\ log[d][k].fn = log[c][k].fn
                     /\ input[d].source_text = input[c].source_text
                     /\ \A j \in 1..(k - 1) : AnswerOf(d, j) = AnswerOf(c, j))
                        => log[d][k].messages = log[c][k].messages

C5_Witness ==
    \E c, d \in Calls :
        /\ input[c].country # EmptyStr
        /\ input[d].country = EmptyStr
        /\ input[c].source_text = input[d].source_text
        /\ Len(log[c]) = 3 /\ Len(log[d]) = 3
        /\ log[c][2].fn = "one_chunk_reflect_on_translation"
        /\ log[d][2].fn = "one_chunk_reflect_on_translation"
        /\ AnswerOf(c, 1) = AnswerOf(d, 1) /\ AnswerOf(c, 2) = AnswerOf(d, 2)
        /\ log[c][2].messages # log[d][2].messages
        /\ log[c][3].messages = log[d][3].messages

\* what call c invokes k-th when it runs alone and the model answers as it did
SoloInvocation(c, k) ==
    IF BelowBudget(c)
    THEN CASE k = 1 ->
                [fn |-> OneChunkFns[1],
                 messages |-> one_chunk_initial_prompt(source_lang, target_lang,
                                    input[c].source_text)]
           [] k = 2 ->
                [fn |-> OneChunkFns[2],
                 messages |-> one_chunk_reflect_prompt(source_lang, target_lang,
                                    input[c].source_text, AnswerOf(c, 1), input[c].country)]
           [] OTHER ->
                [fn |-> OneChunkFns[3],
                 messages |-> one_chunk_improve_prompt(source_lang, target_lang,
                                    input[c].source_text, AnswerOf(c, 1), AnswerOf(c, 2))]
    ELSE [fn |-> "multi_chunk_initial_translation",
          messages |-> multi_chunk_initial_prompt(source_lang, target_lang,
                            source_text_chunks[c], k - 1)]

SoloCount(c) == IF BelowBudget(c) THEN 3 ELSE Len(source_text_chunks[c])

SoloResult(c) == IF BelowBudget(c) THEN AnswerOf(c, 3) ELSE Join(AnswersOf(c))

\* C6: whatever the other call does in between, a call invokes the model with
\* what it would invoke it with alone, given its own arguments, the chunks the
\* splitter gave it and the answers the model gave it, and it resolves with the
\* result it would have alone.
C6_CallsAreIsolated ==
    \A c \in Calls :
        /\ Len(log[c]) <= SoloCount(c)
        /\ \A k \in DOMAIN log[c] :
            [fn |-> log[c][k].fn, messages |-> log[c][k].messages] = SoloInvocation(c, k)
        /\ outcome[c].st = "resolved" =>
            /\ Len(log[c]) = SoloCount(c)
            /\ outcome[c].v = SoloResult(c)
        /\ outcome[c].st = "rejected" => outcome[c].v = AnswerOf(c, Len(log[c]))

C6_Witness ==
    /\ \A c \in Calls : outcome[c].st = "resolved" /\ Len(log[c]) >= 2
    /\ BelowBudget("A") /\ ~BelowBudget("B")
    /\ AnswersOf("A") # AnswersOf("B")
    /\ outcome["A"].v # outcome["B"].v

C8_SingleChunkPipeline ==
    \A c \in Calls :
        BelowBudget(c) =>
            /\ Len(log[c]) <= 3
            /\ \A k \in DOMAIN log[c] : log[c][k].fn = OneChunkFns[k]
            /\ pc[c] \in {"translate", "resolved", "rejected"}
                    \/ (log[c] # <<>> /\ pc[c] = OneChunkFns[Len(log[c])])
            /\ Len(log[c]) >= 2 =>
                /\ log[c][1].resp.st = "ok"
                /\ Includes(UserOf(c, 2),
                        Str("</SOURCE_TEXT> <TRANSLATION>") \o AnswerOf(c, 1)
                            \o Str("</TRANSLATION> When writing suggestions, pay attention to (i) accuracy (ii) fluency (by applying "))
            /\ Len(log[c]) >= 3 =>
                /\ log[c][2].resp.st = "ok"
                /\ Includes(UserOf(c, 3),
                        Str("</SOURCE_TEXT> <TRANSLATION>") \o AnswerOf(c, 1)
                            \o Str("</TRANSLATION> <EXPERT_SUGGESTIONS>") \o AnswerOf(c, 2)
                            \o Str("</EXPERT_SUGGESTIONS> Edit the translation by ensuring (i) accuracy (ii) fluency (by applying "))
            /\ outcome[c].st = "resolved" =>
                /\ Len(log[c]) = 3
                /\ outcome[c].v = AnswerOf(c, 3)

\* translate("English", "French", "Hello world.", "", model, 1000) with the
\* answers "Bonjour le monde.", "no issues", "Bonjour le monde."
C8_Witness ==
    \E c \in Calls :
        /\ input[c] = [source_text |-> Text(3), country |-> EmptyStr,
                       max_tokens |-> MAX_TOKEN_PER_CHUNK]
        /\ Len(log[c]) = 3
        /\ AnswersOf(c) = <<Str("Bonjour le monde."), Str("no issues"), Str("Bonjour le monde.")>>
        /\ outcome[c] = Resolved(Str("Bonjour le monde."))

\* C9: a call has at most one invocation of the model outstanding, the last one
\* it made, and on the multi-chunk path the k-th invocation is the one for chunk
\* k - 1: the chunks are invoked in the order 0, 1, ..., n - 1.
C9_OneInvocationAtATime ==
    \A c \in Calls :
        /\ \A k \in DOMAIN log[c] : log[c][k].resp = Pending => k = Len(log[c])
        /\ ~BelowBudget(c) =>
            \A k \in DOMAIN log[c] :
                /\ k <= Len(source_text_chunks[c])
                /\ Includes(UserOf(c, k),
                        Str("</SOURCE_TEXT> To reiterate, translate only this part: <TRANSLATE_THIS>")
                            \o source_text_chunks[c][k]
                            \o Str("</TRANSLATE_THIS> Output only the translation of the portion you are asked to translate."))

C9_Witness ==
    \E c \in Calls :
        /\ ~BelowBudget(c)
        /\ Len(source_text_chunks[c]) = 3
        /\ Len(log[c]) = 3
        /\ log[c][3].resp = Pending
        /\ \E d \in Calls : BelowBudget(d) /\ Len(log[d]) = 3 /\ log[d][3].resp = Pending

\* C10: for token_count > token_limit, calculate_chunk_size divides by the
\* integer ceil(token_count / token_limit) and returns token_count divided by it
\* plus token_count mod token_limit divided by it.
C10_DividesByCeiling ==
    (plan.st = "returned" /\ plan.token_count > plan.token_limit) =>
        LET n == Num(Ceil(plan.token_count, plan.token_limit))
        IN  /\ plan.num_chunks = n
            /\ plan.result =
                RAdd(RDiv(Num(plan.token_count), n),
                     RDiv(Num(plan.token_count % plan.token_limit), n))

\* the first place (from 1) of piece p in string s, 0 when there is none
FirstIndex(s, p) ==
    IF \E k \in DOMAIN s : s[k] = p
    THEN CHOOSE k \in DOMAIN s : s[k] = p /\ \A j \in 1..(k - 1) : s[j] # p
    ELSE 0

\* what stands in s between the first piece open and the first piece close
Between(s, open, close) == SubSeq(s, FirstIndex(s, open) + 1, FirstIndex(s, close) - 1)

OpenMark == "<TRANSLATE_THIS>"
CloseMark == "</TRANSLATE_THIS>"
NotAMark(p) == p \notin {OpenMark, CloseMark}

\* the tagged context inside the k-th prompt of call c
ContextOf(c, k) ==
    Between(UserOf(c, k),
            " of PART of a text. <SOURCE_TEXT>",
            "</SOURCE_TEXT> To reiterate, translate only this part: <TRANSLATE_THIS>")

C11_ContextMarksChunk ==
    \A c \in Calls :
        ~BelowBudget(c) =>
            /\ Join(source_text_chunks[c]) \in {EmptyStr, input[c].source_text}
            /\ \A k \in DOMAIN log[c] :
                LET chunks == source_text_chunks[c]
                    context == ContextOf(c, k)
                IN  /\ k <= Len(chunks)
                    /\ context = Join(SubSeq(chunks, 1, k - 1))
                                    \o <<OpenMark>> \o chunks[k] \o <<CloseMark>>
                                    \o Join(SubSeq(chunks, k + 1, Len(chunks)))
                    /\ SelectSeq(context, NotAMark) = Join(chunks)
                    /\ Between(context, OpenMark, CloseMark) = chunks[k]

C11_ChunksUnchanged ==
    \A c \in Calls :
        pc[c] = "multi_chunk" => source_text_chunks'[c] = source_text_chunks[c]

\* C11: the context sent for chunk i is the chunks before i joined, the opening
\* mark, chunk i, the closing mark, then the chunks after i joined; without the
\* two marks it is all the chunks joined in order, what stands between the marks
\* is chunk i, and no step of the pass changes the chunk sequence.
C11_TaggedContext == []C11_ContextMarksChunk /\ [][C11_ChunksUnchanged]_vars

C11_Witness ==
    \E c \in Calls :
        /\ ~BelowBudget(c)
        /\ Len(source_text_chunks[c]) = 3
        /\ Len(log[c]) = 3
        /\ ContextOf(c, 2) = <<"Hello", OpenMark, " world", CloseMark, ".">>
        /\ ContextOf(c, 3) = <<"Hello", " world", OpenMark, ".", CloseMark>>

====
